---- MODULE Spec2Model ----
(***************************************************************************)
(* Model of ctools (src/scr/main.cpp), POSIX/Linux build: the one-shot     *)
(* command line (main), the interactive menu (runInteractiveMenu) and the  *)
(* three component operations trimCurrentProcessWorkingSet,                *)
(* listHighMemoryProcesses and tryTerminateProcess.                        *)
(*                                                                         *)
(* A size_t is a 64-bit unsigned integer.  It is represented by its seven  *)
(* base-1024 digits, least significant first (6 x 10 bits + 4 bits), so    *)
(* that the wrap-around of thresholdMB * 1024ULL * 1024ULL is kept.        *)
(* A string is a sequence of one-character strings.                        *)
(***************************************************************************)
EXTENDS Integers, Sequences, FiniteSets, TLC

\* ------------------------------------------------------------------ bounds
MaxLines == 4      \* lines that standard input delivers before end-of-file
MaxProcs == 2      \* entries of /proc in one process table

\* --------------------------------------------------------- 64-bit integers
Radix == 1024          \* the factor 1024ULL; also the digit base of a size_t
NLimbs == 7            \* base-1024 digits of a 64-bit size_t
TopRadix == 16         \* range of the most significant digit (64 = 6*10 + 4)
IntMax == 2147483647   \* largest int (the type of opt)

Zero64 == [i \in 1..NLimbs |-> 0]

\* The low 64 bits of a number given by any count of base-1024 digits.
Wrap64(x) ==
  [i \in 1..NLimbs |->
     IF i > Len(x) THEN 0
     ELSE IF i = NLimbs THEN x[i] % TopRadix ELSE x[i]]

\* TRUE iff the digits x denote a number that fits 64 bits.
Fits64(x) ==
  \A i \in 1..Len(x) :
     /\ (i = NLimbs => x[i] < TopRadix)
     /\ (i > NLimbs => x[i] = 0)

\* The one element of a singleton set.
The(S) == CHOOSE v \in S : TRUE

\* x * m + carry as an unbounded number (one more digit than x); m <= 4096.
\* (v ranges over a singleton so that it is computed once per digit.)
RECURSIVE MulAdd(_, _, _)
MulAdd(x, m, carry) ==
  IF x = <<>> THEN <<carry>>
  ELSE The({ <<v % Radix>> \o MulAdd(Tail(x), m, v \div Radix)
             : v \in {x[1] * m + carry} })

\* Unsigned 64-bit multiplication by 1024ULL.
Mul1024(x) == Wrap64(MulAdd(x, Radix, 0))

\* Unsigned 64-bit negation (the value strtoul gives for a '-' sign).
Neg64(x) ==
  Wrap64(MulAdd([i \in 1..NLimbs |->
                   IF i = NLimbs THEN TopRadix - 1 - x[i] ELSE Radix - 1 - x[i]],
                1, 1))

Limb(x, i) == IF i <= Len(x) THEN x[i] ELSE 0

\* a >= b for numbers given by any count of digits.
GreaterEq(a, b) ==
  LET n == IF Len(a) >= Len(b) THEN Len(a) ELSE Len(b)
      D == {i \in 1..n : Limb(a, i) # Limb(b, i)}
  IN  D = {} \/ (LET m == CHOOSE i \in D : \A j \in D : j <= i
                 IN Limb(a, m) > Limb(b, m))

\* ----------------------------------------------------------------- strings
Digits == {"0", "1", "2", "3", "4", "5", "6", "7", "8", "9"}
DigitVal ==
  ("0" :> 0) @@ ("1" :> 1) @@ ("2" :> 2) @@ ("3" :> 3) @@ ("4" :> 4) @@
  ("5" :> 5) @@ ("6" :> 6) @@ ("7" :> 7) @@ ("8" :> 8) @@ ("9" :> 9)

\* isspace of the "C" locale, for the characters that occur.
IsSpace(c) == c \in {" ", "\n", "\t"}

RECURSIVE SkipWs(_)
SkipWs(s) == IF s # <<>> /\ IsSpace(s[1]) THEN SkipWs(Tail(s)) ELSE s

RECURSIVE DigitRun(_)
DigitRun(s) ==
  IF s # <<>> /\ s[1] \in Digits THEN <<s[1]>> \o DigitRun(Tail(s)) ELSE <<>>

Drop(s, n) == SubSeq(s, n + 1, Len(s))

\* The decimal digits ds as an unsigned 64-bit number: [val, overflow].
RECURSIVE Accumulate(_, _, _)
Accumulate(ds, acc, over) ==
  IF ds = <<>> THEN [val |-> acc, overflow |-> over]
  ELSE The({ Accumulate(Tail(ds), Wrap64(wide), over \/ ~Fits64(wide))
             : wide \in {MulAdd(acc, 10, DigitVal[ds[1]])} })

\* strtoul(s, &end, 10) / num_get for an unsigned type: leading white space,
\* an optional sign, then decimal digits.  [ok, val, overflow, rest].
ScanUnsigned(s) ==
  LET t == SkipWs(s)
      signed == t # <<>> /\ t[1] \in {"+", "-"}
      u == IF signed THEN Tail(t) ELSE t
      ds == DigitRun(u)
      a == Accumulate(ds, Zero64, FALSE)
  IN  IF ds = <<>>
        THEN [ok |-> FALSE, val |-> Zero64, overflow |-> FALSE, rest |-> t]
        ELSE [ok |-> TRUE,
              val |-> IF signed /\ t[1] = "-" THEN Neg64(a.val) ELSE a.val,
              overflow |-> a.overflow,
              rest |-> Drop(u, Len(ds))]

\* std::stoul(str): the value, or the exception it throws.
stoul(str) ==
  LET r == ScanUnsigned(str)
  IN  IF ~r.ok THEN [thrown |-> "invalid_argument", val |-> Zero64]
      ELSE IF r.overflow THEN [thrown |-> "out_of_range", val |-> Zero64]
      ELSE [thrown |-> "none", val |-> r.val]

\* ------------------------------------------------------- the process table
PageSize == 4096       \* sysconf(_SC_PAGESIZE)

\* n < 1024 as a size_t.
Small64(n) == [i \in 1..NLimbs |-> IF i = 1 THEN n ELSE 0]

\* The entries readdir("/proc") can deliver.  pid is atoi(d_name); statm and
\* comm say whether /proc/<pid>/statm and /proc/<pid>/comm can be read when
\* they are opened ("noopen": the open fails; "readfail": the open succeeds
\* and the read fails, the process having exited meanwhile); resident is the
\* second number of statm, in pages; sigterm says whether kill(pid, SIGTERM)
\* returns 0; self marks the entry of the tool's own process.
ProcPool ==
  { [pid |-> 40, statm |-> "ok", resident |-> Small64(512), comm |-> "ok",
     name |-> "ctools", sigterm |-> TRUE, self |-> TRUE],
    [pid |-> 41, statm |-> "ok", resident |-> Small64(768), comm |-> "ok",
     name |-> "big", sigterm |-> TRUE, self |-> FALSE],
    [pid |-> 42, statm |-> "ok", resident |-> Small64(768), comm |-> "noopen",
     name |-> "gone", sigterm |-> FALSE, self |-> FALSE],
    [pid |-> 43, statm |-> "readfail", resident |-> Small64(768), comm |-> "ok",
     name |-> "exiting", sigterm |-> FALSE, self |-> FALSE],
    [pid |-> 44, statm |-> "noopen", resident |-> Small64(768), comm |-> "noopen",
     name |-> "hidden", sigterm |-> FALSE, self |-> FALSE],
    [pid |-> 0, statm |-> "noopen", resident |-> Zero64, comm |-> "noopen",
     name |-> "meminfo", sigterm |-> FALSE, self |-> FALSE] }

\* A process table: entries of the pool in the order readdir delivers them.
Tables ==
  UNION { { t \in [1..n -> ProcPool] : \A i, j \in 1..n : t[i] = t[j] => i = j }
          : n \in 0..MaxProcs }

\* ------------------------------------------------------------------- state
VARIABLES
  argv,        \* the argument vector; argv[1] is the program name (C's argv[0])
  buf,         \* characters of standard input delivered and not yet read
  eof,         \* standard input has reached end-of-file after buf
  nlines,      \* lines delivered so far
  pc,          \* position of the program
  opt,         \* runInteractiveMenu: int opt
  threshold,   \* size_t threshold
  killch,      \* runInteractiveMenu: char killch
  doKill,      \* bool doKill
  procs,       \* the vector listHighMemoryProcesses returned
  idx,         \* position of the range-for over procs
  calls,       \* component invocations of the current command or selection
  lastOut,     \* the message printed last
  exitStatus   \* value returned from main, -1 while it has not returned

vars == <<argv, buf, eof, nlines, pc, opt, threshold, killch, doKill,
          procs, idx, calls, lastOut, exitStatus>>

argc == Len(argv)

\* ------------------------------------------------------ component operations
\* One iteration of the readdir loop: the records the entry e adds to out.
ScanEntry(e, thresholdMB) ==
  IF e.pid <= 0 THEN <<>>
  ELSE IF e.statm = "noopen" THEN <<>>
  ELSE LET resident == IF e.statm = "ok" THEN e.resident ELSE Zero64
           rss == Wrap64(MulAdd(resident, PageSize, 0))
       IN  IF GreaterEq(rss, Mul1024(Mul1024(thresholdMB)))
             THEN <<[pid |-> e.pid,
                     name |-> IF e.comm = "ok" THEN e.name ELSE "",
                     rss |-> rss]>>
             ELSE <<>>

RECURSIVE ScanDir(_, _)
ScanDir(d, thresholdMB) ==
  IF d = <<>> THEN <<>>
  ELSE ScanEntry(d[1], thresholdMB) \o ScanDir(Tail(d), thresholdMB)

\* proc: the entries of /proc at the time of the call.
listHighMemoryProcesses(proc, thresholdMB) == ScanDir(proc, thresholdMB)

\* kill(pid, SIGTERM) == 0
tryTerminateProcess(pid) == \E e \in ProcPool : e.pid = pid /\ e.sigterm

\* pid is the process that runs the tool.
IsSelf(pid) == \E e \in ProcPool : e.pid = pid /\ e.self

TrimCall == [fn |-> "trimCurrentProcessWorkingSet", arg |-> <<>>]
ListCall(thresholdMB) == [fn |-> "listHighMemoryProcesses", arg |-> thresholdMB]
KillCall(pid) == [fn |-> "tryTerminateProcess", arg |-> <<pid>>]

\* ------------------------------------------------------------ command line
Prog == <<"c", "t", "o", "o", "l", "s">>
TrimCmd == <<"t", "r", "i", "m">>
ListCmd == <<"l", "i", "s", "t">>
AltCmd == <<"a", "l", "t">>
FooCmd == <<"f", "o", "o">>
KillFlag == <<"-", "-", "k", "i", "l", "l">>

\* Threshold arguments: 0, 1, 3, "abc", "3x", -1, 2^44 and 2^64.
ThresholdArgs ==
  { <<"0">>, <<"1">>, <<"3">>, <<"a", "b", "c">>, <<"3", "x">>, <<"-", "1">>,
    <<"1", "7", "5", "9", "2", "1", "8", "6", "0", "4", "4", "4", "1", "6">>,
    <<"1", "8", "4", "4", "6", "7", "4", "4", "0", "7", "3", "7", "0", "9",
      "5", "5", "1", "6", "1", "6">> }

ArgVectors ==
  { <<Prog, TrimCmd>>, <<Prog, AltCmd>>, <<Prog, FooCmd>>, <<Prog, ListCmd>>,
    <<Prog, TrimCmd, FooCmd>>, <<Prog, ListCmd, <<"1">>, FooCmd>> }
  \cup { <<Prog, ListCmd, t>> : t \in ThresholdArgs }
  \cup { <<Prog, ListCmd, t, KillFlag>> : t \in ThresholdArgs }

\* ----------------------------------------------------------- standard input
\* The lines standard input can deliver (without their newline): the empty
\* line, the four menu options (also thresholds in MB), an unknown option,
\* a word that is no number, the affirmative answer, a word that starts like
\* it, and lines that run two inputs together.
Lines ==
  { <<>>, <<"1">>, <<"2">>, <<"3">>, <<"4">>, <<"1", "2">>, <<"a">>, <<"s">>,
    <<"s", "a">>, <<"1", "s">>, <<"1", "s", "a">>, <<"2", "a">> }

\* A getline that extracts nothing.
DiscardLine_Nothing(s) == s

\* std::getline(std::cin, skip): what is left after the line is extracted.
RECURSIVE DiscardLine(_)
DiscardLine(s) ==
  IF s = <<>> THEN <<>>
  ELSE IF s[1] = "\n" THEN Tail(s) ELSE DiscardLine(Tail(s))

RECURSIVE AccumulateInt(_, _, _)
AccumulateInt(ds, acc, over) ==
  IF ds = <<>> THEN [val |-> acc, overflow |-> over]
  ELSE LET d == DigitVal[ds[1]]
           o == over \/ acc > (IntMax - d) \div 10
       IN  AccumulateInt(Tail(ds), IF o THEN IntMax ELSE acc * 10 + d, o)

\* std::cin >> opt (int): [ok, val, rest]; on overflow the digits are
\* consumed and failbit is set.
ScanInt(s) ==
  LET t == SkipWs(s)
      signed == t # <<>> /\ t[1] \in {"+", "-"}
      u == IF signed THEN Tail(t) ELSE t
      ds == DigitRun(u)
      a == AccumulateInt(ds, 0, FALSE)
  IN  IF ds = <<>> THEN [ok |-> FALSE, val |-> 0, rest |-> t]
      ELSE [ok |-> ~a.overflow,
            val |-> IF signed /\ t[1] = "-" /\ ~a.overflow THEN 0 - a.val ELSE a.val,
            rest |-> Drop(u, Len(ds))]

\* std::cin >> killch (char), killch initialised to 'n': [ch, rest].
ScanChar(s) ==
  LET t == SkipWs(s)
  IN  IF t = <<>> THEN [ch |-> "n", rest |-> <<>>]
      ELSE [ch |-> t[1], rest |-> Tail(t)]

\* A dispatch that trims for option 2 as well.
TrimsFirst_AlsoOnList(o) == o = 1 \/ o = 2 \/ o = 3

\* opt == 1 || opt == 3
TrimsFirst(o) == o = 1 \/ o = 3

\* opt == 2 || opt == 3
AsksThreshold(o) == o = 2 \/ o = 3

\* killch == 's' || killch == 'S' || killch == 'y' || killch == 'Y'
IsAffirmative(ch) == ch \in {"s", "S", "y", "Y"}

\* A formatted read can proceed: a character that is not white space is
\* buffered, or end-of-file has been reached.
InputReady == eof \/ SkipWs(buf) # <<>>

\* -------------------------------------------------------------------- Init
Init ==
  /\ argv \in {<<Prog>>} \cup ArgVectors
  /\ buf = <<>>
  /\ eof = FALSE
  /\ nlines = 0
  /\ pc = "start"
  /\ opt = 0
  /\ threshold = Zero64
  /\ killch = "n"
  /\ doKill = FALSE
  /\ procs = <<>>
  /\ idx = 1
  /\ calls = <<>>
  /\ lastOut = ""
  /\ exitStatus = -1

\* ---------------------------------------------------------------- one-shot
\* main, argc < 2: runInteractiveMenu is entered.
MainInteractive ==
  /\ pc = "start" /\ argc < 2
  /\ pc' = "menu"
  /\ UNCHANGED <<argv, buf, eof, nlines, opt, threshold, killch,
                 doKill, procs, idx, calls, lastOut, exitStatus>>

\* main, cmd == "trim"
MainTrim ==
  /\ pc = "start" /\ argc >= 2 /\ argv[2] = TrimCmd
  /\ calls' = Append(calls, TrimCall)
  /\ lastOut' = "trim"
  /\ pc' = "exited" /\ exitStatus' = 0
  /\ UNCHANGED <<argv, buf, eof, nlines, opt, threshold, killch,
                 doKill, procs, idx>>

\* main, cmd == "list" && argc >= 3, up to the range-for over procs.
MainList ==
  /\ pc = "start" /\ argc >= 2 /\ argv[2] = ListCmd /\ argc >= 3
  /\ LET r == stoul(argv[3])
     IN  IF r.thrown # "none"
           THEN /\ pc' = "aborted"
                /\ lastOut' = r.thrown
                /\ UNCHANGED <<threshold, doKill, procs, idx, calls>>
           ELSE /\ threshold' = r.val
                /\ doKill' = (argc >= 4 /\ argv[4] = KillFlag)
                /\ \E proc \in Tables :
                     LET out == listHighMemoryProcesses(proc, r.val)
                     IN  /\ procs' = out
                         /\ lastOut' = IF out = <<>> THEN "No processes found"
                                                     ELSE lastOut
                /\ calls' = Append(calls, ListCall(r.val))
                /\ idx' = 1
                /\ pc' = "oloop"
  /\ UNCHANGED <<argv, buf, eof, nlines, opt, killch, exitStatus>>

\* main, the range-for over procs and the return 0 after it.  SIGTERM sent
\* to the tool's own pid ends the process inside kill() under the default
\* disposition, and is discarded if SIGTERM was inherited as ignored.
MainListStep ==
  /\ pc = "oloop"
  /\ IF idx <= Len(procs)
       THEN LET pid == procs[idx].pid
            IN  IF doKill
                  THEN /\ calls' = Append(calls, KillCall(pid))
                       /\ lastOut' = IF tryTerminateProcess(pid) THEN "OK" ELSE "FAILED"
                       /\ \E dies \in IF IsSelf(pid) THEN BOOLEAN ELSE {FALSE} :
                            IF dies THEN pc' = "killed" /\ idx' = idx
                                    ELSE pc' = "oloop" /\ idx' = idx + 1
                       /\ UNCHANGED exitStatus
                  ELSE /\ lastOut' = "PID"
                       /\ idx' = idx + 1
                       /\ UNCHANGED <<pc, calls, exitStatus>>
       ELSE /\ pc' = "exited" /\ exitStatus' = 0
            /\ UNCHANGED <<idx, calls, lastOut>>
  /\ UNCHANGED <<argv, buf, eof, nlines, opt, threshold, killch,
                 doKill, procs>>

\* main, cmd == "alt": alternate_main
MainAlt ==
  /\ pc = "start" /\ argc >= 2 /\ argv[2] = AltCmd
  /\ calls' = Append(calls, TrimCall)
  /\ lastOut' = "Done"
  /\ pc' = "exited" /\ exitStatus' = 0
  /\ UNCHANGED <<argv, buf, eof, nlines, opt, threshold, killch,
                 doKill, procs, idx>>

\* main, no branch taken: the usage text and return 1.
MainUsage ==
  /\ pc = "start" /\ argc >= 2
  /\ argv[2] # TrimCmd /\ ~(argv[2] = ListCmd /\ argc >= 3) /\ argv[2] # AltCmd
  /\ lastOut' = "Usage"
  /\ pc' = "exited" /\ exitStatus' = 1
  /\ UNCHANGED <<argv, buf, eof, nlines, opt, threshold, killch,
                 doKill, procs, idx, calls>>

\* ------------------------------------------------------------- interactive
\* The terminal or pipe delivers the next line, the last line without its
\* newline, or end-of-file, when a formatted read has used up the buffer.
StdinDeliver ==
  /\ pc \in {"option", "threshold", "kill"}
  /\ ~InputReady
  /\ \/ /\ nlines < MaxLines
        /\ \E line \in Lines : buf' = line \o <<"\n">>
        /\ nlines' = nlines + 1
        /\ eof' = FALSE
     \/ /\ nlines < MaxLines
        /\ \E line \in Lines \ {<<>>} : buf' = line
        /\ nlines' = nlines + 1
        /\ eof' = TRUE
     \/ /\ buf' = <<>>
        /\ eof' = TRUE
        /\ UNCHANGED nlines
  /\ UNCHANGED <<argv, pc, opt, threshold, killch, doKill, procs,
                 idx, calls, lastOut, exitStatus>>

\* runInteractiveMenu: top of the loop, the menu text and the locals.
MenuDisplay ==
  /\ pc = "menu"
  /\ lastOut' = "Menu"
  /\ opt' = 0 /\ threshold' = Zero64 /\ killch' = "n" /\ doKill' = FALSE
  /\ procs' = <<>> /\ idx' = 1
  /\ calls' = <<>>
  /\ pc' = "option"
  /\ UNCHANGED <<argv, buf, eof, nlines, exitStatus>>

\* runInteractiveMenu: std::cin >> opt, and the dispatch on opt up to the
\* threshold prompt.
ReadOption ==
  /\ pc = "option" /\ InputReady
  /\ LET r == ScanInt(buf)
     IN  IF ~r.ok
           THEN /\ buf' = DiscardLine(r.rest)
                /\ lastOut' = "Entrada no valida"
                /\ pc' = "menu"
                /\ UNCHANGED <<opt, calls, exitStatus>>
           ELSE /\ buf' = r.rest
                /\ opt' = r.val
                /\ IF r.val = 4
                     THEN /\ pc' = "exited" /\ exitStatus' = 0
                          /\ UNCHANGED <<calls, lastOut>>
                     ELSE /\ calls' = IF TrimsFirst(r.val)
                                        THEN Append(calls, TrimCall) ELSE calls
                          /\ IF AsksThreshold(r.val)
                               THEN pc' = "threshold" /\ lastOut' = "Umbral en MB"
                               ELSE /\ pc' = "menu"
                                    /\ lastOut' = IF r.val = 1 THEN "trim" ELSE lastOut
                          /\ UNCHANGED exitStatus
  /\ UNCHANGED <<argv, eof, nlines, threshold, killch, doKill,
                 procs, idx>>

\* runInteractiveMenu: std::cin >> threshold
ReadThreshold ==
  /\ pc = "threshold" /\ InputReady
  /\ LET r == ScanUnsigned(buf)
     IN  IF ~r.ok \/ r.overflow
           THEN /\ buf' = DiscardLine(r.rest)
                /\ lastOut' = "Umbral invalido"
                /\ pc' = "menu"
                /\ UNCHANGED threshold
           ELSE /\ buf' = r.rest
                /\ threshold' = r.val
                /\ lastOut' = "Intentar terminar"
                /\ pc' = "kill"
  /\ UNCHANGED <<argv, eof, nlines, opt, killch, doKill, procs, idx,
                 calls, exitStatus>>

\* runInteractiveMenu: std::cin >> killch, doKill, and the call of
\* listHighMemoryProcesses.
ReadKill ==
  /\ pc = "kill" /\ InputReady
  /\ LET r == ScanChar(buf)
     IN  /\ buf' = r.rest
         /\ killch' = r.ch
         /\ doKill' = IsAffirmative(r.ch)
  /\ \E proc \in Tables : procs' = listHighMemoryProcesses(proc, threshold)
  /\ calls' = Append(calls, ListCall(threshold))
  /\ lastOut' = "Procesos con >="
  /\ idx' = 1
  /\ pc' = "iloop"
  /\ UNCHANGED <<argv, eof, nlines, opt, threshold, exitStatus>>

\* A range-for that terminates every listed process, asked or not.
MenuListStep_KillsUnasked ==
  /\ pc = "iloop"
  /\ IF idx <= Len(procs)
       THEN LET pid == procs[idx].pid
            IN  /\ calls' = Append(calls, KillCall(pid))
                /\ lastOut' = IF tryTerminateProcess(pid) THEN "OK" ELSE "FAILED"
                /\ \E dies \in IF IsSelf(pid) THEN BOOLEAN ELSE {FALSE} :
                     IF dies THEN pc' = "killed" /\ idx' = idx
                             ELSE pc' = "iloop" /\ idx' = idx + 1
       ELSE /\ pc' = "menu"
            /\ UNCHANGED <<idx, calls, lastOut>>
  /\ UNCHANGED <<argv, buf, eof, nlines, opt, threshold, killch,
                 doKill, procs, exitStatus>>

\* runInteractiveMenu: the range-for over procs; after it the loop starts over.
MenuListStep ==
  /\ pc = "iloop"
  /\ IF idx <= Len(procs)
       THEN LET pid == procs[idx].pid
            IN  IF doKill
                  THEN /\ calls' = Append(calls, KillCall(pid))
                       /\ lastOut' = IF tryTerminateProcess(pid) THEN "OK" ELSE "FAILED"
                       /\ \E dies \in IF IsSelf(pid) THEN BOOLEAN ELSE {FALSE} :
                            IF dies THEN pc' = "killed" /\ idx' = idx
                                    ELSE pc' = "iloop" /\ idx' = idx + 1
                  ELSE /\ lastOut' = "PID"
                       /\ idx' = idx + 1
                       /\ UNCHANGED <<pc, calls>>
       ELSE /\ pc' = "menu"
            /\ UNCHANGED <<idx, calls, lastOut>>
  /\ UNCHANGED <<argv, buf, eof, nlines, opt, threshold, killch,
                 doKill, procs, exitStatus>>

Next ==
  \/ MainInteractive
  \/ MainTrim
  \/ MainList
  \/ MainListStep
  \/ MainAlt
  \/ MainUsage
  \/ StdinDeliver
  \/ MenuDisplay
  \/ ReadOption
  \/ ReadThreshold
  \/ ReadKill
  \/ MenuListStep

Spec == Init /\ [][Next]_vars

\* The program takes its next step, and standard input delivers its next
\* line or end-of-file, whenever one of them can.
LiveSpec == Spec /\ WF_vars(Next)

\* ================================================================== claims
Terminal == {"exited", "aborted", "killed"}
OneShot == argc >= 2
Pids == {e.pid : e \in ProcPool}
PoolEntry(pid) == CHOOSE e \in ProcPool : e.pid = pid
KillCount(pid) == Cardinality({i \in 1..Len(calls) : calls[i] = KillCall(pid)})
RecordCount(pid) == Cardinality({i \in 1..Len(procs) : procs[i].pid = pid})
NoListOrKill(cs) == \A i \in 1..Len(cs) : cs[i] = TrimCall

\* C1: every record listHighMemoryProcesses(T) returned has
\* rss >= T * 1024 * 1024, the product taken in the integers (not modulo 2^64).
C1_RecordsAtOrAboveThreshold ==
  \A i \in 1..Len(procs) :
     GreaterEq(procs[i].rss, MulAdd(MulAdd(threshold, Radix, 0), Radix, 0))

\* C2: when `list <T> --kill` has ended, tryTerminateProcess has been invoked
\* exactly once for each returned record and for no other pid.
C2_KillOncePerRecord ==
  (pc \in Terminal /\ argc >= 4 /\ argv[2] = ListCmd /\ argv[4] = KillFlag)
    => \A pid \in Pids : KillCount(pid) = RecordCount(pid)

\* The response to the kill question: the characters up to the next white space.
RECURSIVE Token(_)
Token(s) ==
  IF s = <<>> \/ IsSpace(s[1]) THEN <<>> ELSE <<s[1]>> \o Token(Tail(s))
AffirmativeTokens == {<<"s">>, <<"S">>, <<"y">>, <<"Y">>}

\* C3: tryTerminateProcess is invoked only when kill was selected: in the
\* menu only by a response that is one of the tokens s, S, y, Y, in one-shot
\* mode only by a third argument --kill.
C3_TerminateOnlyWhenSelected ==
  /\ [][(pc = "kill" /\ doKill') => Token(SkipWs(buf)) \in AffirmativeTokens]_vars
  /\ [](OneShot /\ doKill => argc >= 4 /\ argv[4] = KillFlag)
  /\ []((\E pid \in Pids : KillCount(pid) > 0) => doKill)

\* C4: a one-shot invocation ends by returning 0 or 1 from main, never by an
\* uncaught exception, an abort or a signal.
C4_OneShotEndsByReturning ==
  OneShot => pc \notin {"aborted", "killed"}

\* A string of decimal digits.
IsDecimal(str) == str # <<>> /\ \A i \in 1..Len(str) : str[i] \in Digits
\* The argument vector is one of: trim, list <thresholdMB> [--kill], alt.
MatchesForm ==
  \/ argv = <<Prog, TrimCmd>>
  \/ argv = <<Prog, AltCmd>>
  \/ /\ argc \in {3, 4} /\ argv[2] = ListCmd /\ IsDecimal(argv[3])
     /\ (argc = 4 => argv[4] = KillFlag)

\* C5: a one-shot invocation that matches none of the three forms prints the
\* usage text, invokes no component and exits with status 1; one that matches
\* a form exits with status 0.
C5_UsageExactlyForOtherForms ==
  (OneShot /\ pc \in Terminal) =>
     IF MatchesForm THEN pc = "exited" /\ exitStatus = 0
     ELSE pc = "exited" /\ exitStatus = 1 /\ lastOut = "Usage" /\ calls = <<>>

\* The next input is present and is not a number: after white space comes a
\* character that starts no decimal number.
NonNumericInput ==
  LET t == SkipWs(buf)
  IN  /\ t # <<>>
      /\ t[1] \notin Digits
      /\ ~(t[1] \in {"+", "-"} /\ Len(t) >= 2 /\ t[2] \in Digits)

\* What follows the line on which the next input stands.
AfterInputLine ==
  LET t == SkipWs(buf)
      N == {i \in 1..Len(t) : t[i] = "\n"}
  IN  IF N = {} THEN <<>>
      ELSE SubSeq(t, (CHOOSE i \in N : \A j \in N : i <= j) + 1, Len(t))

C7_NoWorkOnInvalidThreshold ==
  [][(pc = "threshold" /\ InputReady /\ NonNumericInput) => calls' = <<>>]_vars

\* C7, amended: when a selection is abandoned for a non-numeric threshold,
\* neither listHighMemoryProcesses nor tryTerminateProcess has been performed
\* for it, and trimCurrentProcessWorkingSet has been performed exactly once if
\* the selection was option 3 and not at all if it was option 2.
C7_OnlyTrimOfOption3OnInvalidThreshold ==
  [][(pc = "threshold" /\ InputReady /\ NonNumericInput)
       => /\ pc' = "menu"
          /\ calls' = IF opt = 3 THEN <<TrimCall>> ELSE <<>>
          /\ procs' = <<>>]_vars
\* Option 3 was abandoned for a threshold that was there and was no number.
C7_Witness ==
  /\ pc = "menu" /\ lastOut = "Umbral invalido" /\ ~eof
  /\ opt = 3 /\ calls = <<TrimCall>>

\* The invocations of a listing: one enumeration, then one termination per
\* record for the first n records if kill was selected.
ListInvocations(T, kill, recs, n) ==
  <<ListCall(T)>> \o [i \in 1..(IF kill THEN n ELSE 0) |-> KillCall(recs[i].pid)]
\* Option 3 trims before it lists.
MenuPrefix == IF opt = 3 THEN <<TrimCall>> ELSE <<>>

\* C8: the menu (option 2, option 1) and the one-shot commands (list, trim)
\* perform the same invocations for the same threshold, kill choice and
\* enumeration result: one listHighMemoryProcesses(T), then
\* tryTerminateProcess on the returned pids in order (or none); one
\* trimCurrentProcessWorkingSet for trim.
C8_PathsInvokeAlike ==
  /\ pc = "oloop" => calls = ListInvocations(threshold, doKill, procs, idx - 1)
  /\ pc = "iloop" =>
       calls = MenuPrefix \o ListInvocations(threshold, doKill, procs, idx - 1)
  /\ (pc = "exited" /\ OneShot /\ argv[2] = ListCmd /\ argc >= 3) =>
       calls = ListInvocations(threshold, doKill, procs, Len(procs))
  /\ (pc = "menu" /\ opt \in {2, 3} /\ ~NoListOrKill(calls)) =>
       calls = MenuPrefix \o ListInvocations(threshold, doKill, procs, Len(procs))
  /\ (pc = "killed" /\ OneShot) =>
       calls = ListInvocations(threshold, doKill, procs, idx)
  /\ (pc = "killed" /\ ~OneShot) =>
       calls = MenuPrefix \o ListInvocations(threshold, doKill, procs, idx)
  /\ (pc = "exited" /\ OneShot /\ argv[2] = TrimCmd) => calls = <<TrimCall>>
  /\ (pc = "menu" /\ opt = 1) => calls = <<TrimCall>>
\* Option 2 has listed two processes and terminated both.
C8_Witness ==
  /\ pc = "menu" /\ opt = 2 /\ doKill /\ Len(procs) = 2
  /\ calls = <<ListCall(threshold), KillCall(procs[1].pid), KillCall(procs[2].pid)>>

\* A numeric /proc entry whose statm or comm cannot be read.
Unreadable(e) == e.pid > 0 /\ (e.statm # "ok" \/ e.comm # "ok")

\* C9: a process whose memory size or name cannot be read is omitted, or is
\* included with rss = 0 and an empty name: no returned record has an empty
\* name with non-zero rss, or rss = 0 from a failed read with a name.
C9_UnreadableOmittedOrZeroed ==
  \A i \in 1..Len(procs) :
     LET e == PoolEntry(procs[i].pid)
     IN  /\ ~(procs[i].name = "" /\ procs[i].rss # Zero64)
         /\ ~(e.statm = "readfail" /\ procs[i].rss = Zero64 /\ procs[i].name # "")
         /\ (Unreadable(e) => procs[i].rss = Zero64 /\ procs[i].name = "")

\* C10: once standard input is exhausted the interactive menu returns and the
\* process ends; it does not display the menu forever.
C10_MenuEndsAtEof ==
  (~OneShot /\ eof) ~> (pc \in Terminal)
====
